---------------------------- MODULE Spec2Model ----------------------------
(***************************************************************************)
(* A model of ez.py (src/src/ez.py): column summaries (NUM, SYM), BINs and *)
(* their entropy merge, COLS, DATA, the sequential model optimiser smo,    *)
(* the tree builder and the incremental naive Bayes visitor NB.            *)
(*                                                                         *)
(* Conventions.                                                            *)
(*  - Python lists are sequences; a Python index k is the TLA+ index k+1.  *)
(*    The field `at` of a column or bin keeps its 0-based Python value.    *)
(*  - A column name is the sequence of its characters.                     *)
(*  - Python floats are modelled by exact arithmetic: a rational is a      *)
(*    reduced pair <<p, q>> with q > 0, and comparisons of logarithms are  *)
(*    carried out on the integers whose logarithms they are.               *)
(*  - A Python value that may be None is a sequence: None is <<>> and the  *)
(*    value v is <<v>>.  A raised exception sets the machine's err field   *)
(*    to the exception's name and stops the machine.                       *)
(***************************************************************************)
EXTENDS Integers, Sequences, FiniteSets, TLC

VARIABLES data,    \* the DATA under construction: [cols, rows, err]
          lastRow, \* the row handed to the last DATA.add (None before any)
          binrun,  \* one call of COL.bins / BIN.merge
          mrun,    \* one call of merges with a caller-supplied merge function
          smoS,    \* the state of one run of smo
          treeS,   \* one call of tree / BIN.selectsRejects
          nbS      \* the NB visitor and the stream it is fed

vars == <<data, lastRow, binrun, mrun, smoS, treeS, nbS>>

-----------------------------------------------------------------------------
(* Globals of ez.py *)

\* big = 1E32 : stands above every value of the model (TLC integers are 32 bit)
big == 1000000

\* the missing-value mark "?"; cells are integers, so the mark is an integer
\* outside the range of the modelled values
Missing == -999

None == <<>>

Some(v) == <<v>>

The(o) == o[1]

-----------------------------------------------------------------------------
(* Arithmetic helpers *)

Abs(x) == IF x < 0 THEN -x ELSE x

Min2(a, b) == IF a <= b THEN a ELSE b

Max2(a, b) == IF a >= b THEN a ELSE b

RECURSIVE Gcd(_, _)
Gcd(a, b) == IF b = 0 THEN a ELSE Gcd(b, a % b)

\* the rational p/q, reduced, denominator positive (q # 0)
Rat(p, q) ==
  LET g == Gcd(Abs(p), Abs(q))
      s == IF q < 0 THEN -1 ELSE 1
  IN  <<(s * p) \div g, (s * q) \div g>>

RAdd(a, b) == Rat(a[1] * b[2] + b[1] * a[2], a[2] * b[2])

RSub(a, b) == Rat(a[1] * b[2] - b[1] * a[2], a[2] * b[2])

RMul(a, b) == Rat(a[1] * b[1], a[2] * b[2])

RInt(x) == <<x, 1>>

RECURSIVE Pow(_, _)
Pow(b, e) == IF e = 0 THEN 1 ELSE b * Pow(b, e - 1)

\* Python's int(p/q): truncation toward zero
Trunc(p, q) ==
  LET r == Rat(p, q)
  IN  IF r[1] >= 0 THEN r[1] \div r[2] ELSE -((-r[1]) \div r[2])

RECURSIVE SeqSum(_)
SeqSum(s) == IF s = <<>> THEN 0 ELSE Head(s) + SeqSum(Tail(s))

Last(s) == s[Len(s)]

-----------------------------------------------------------------------------
(* SYM and NUM *)

Upper == {"A", "B", "C", "H", "L", "M", "V", "Y"}

\* COL.__init__ + SYM.__init__
NewSYM(at, txt) == [isNum |-> FALSE, at |-> at, txt |-> txt, n |-> 0, has |-> <<>>]

\* COL.__init__ + NUM.__init__
NewNUM(at, txt) ==
  [isNum |-> TRUE, at |-> at, txt |-> txt, n |-> 0,
   mu |-> RInt(0), m2 |-> RInt(0), lo |-> big, hi |-> -big,
   heaven |-> IF Last(txt) = "-" THEN 0 ELSE 1]

\* dict.get(x, 0) on a frequency table kept as a function
HasGet(has, x) == IF x \in DOMAIN has THEN has[x] ELSE 0

HasPut(has, x, v) == [k \in DOMAIN has \cup {x} |-> IF k = x THEN v ELSE has[k]]

SymAdd(col, x) ==
  IF x # Missing
    THEN [col EXCEPT !.n = @ + 1, !.has = HasPut(col.has, x, HasGet(col.has, x) + 1)]
    ELSE col

NumAdd(col, x) ==
  IF x # Missing
    THEN LET n1  == col.n + 1
             d   == RSub(RInt(x), col.mu)
             mu1 == RAdd(col.mu, RMul(d, Rat(1, n1)))
         IN  [col EXCEPT !.n  = n1,
                         !.mu = mu1,
                         !.m2 = RAdd(col.m2, RMul(d, RSub(RInt(x), mu1))),
                         !.lo = Min2(x, col.lo),
                         !.hi = Max2(x, col.hi)]
    ELSE col

ColAdd(col, x) == IF col.isNum THEN NumAdd(col, x) ELSE SymAdd(col, x)

-----------------------------------------------------------------------------
(* COLS *)

\* one column of COLS.__init__: NUM when the first character is upper case
NewCol(at, txt) == IF txt[1] \in Upper THEN NewNUM(at, txt) ELSE NewSYM(at, txt)

Ats(names) == 0 .. (Len(names) - 1)

RECURSIVE AtsWhere(_, _, _)
\* the positions k <= at < n for which keep[at], in increasing order
AtsWhere(keep, k, n) ==
  IF k >= n THEN <<>>
  ELSE (IF keep[k] THEN <<k>> ELSE <<>>) \o AtsWhere(keep, k + 1, n)

RECURSIVE KlassOf(_, _)
\* the last column whose name ends in "!", or None
KlassOf(names, k) ==
  IF k = 0 THEN None
  ELSE IF Last(names[k]) = "!" THEN Some(k - 1) ELSE KlassOf(names, k - 1)

\* COLS.__init__ without the test z != "X"
NewCOLS_KeepsX(names) ==
  [all   |-> [k \in 1 .. Len(names) |-> NewCol(k - 1, names[k])],
   x     |-> AtsWhere([at \in Ats(names) |->
                         Last(names[at + 1]) \notin {"!", "+", "-"}],
                      0, Len(names)),
   y     |-> AtsWhere([at \in Ats(names) |->
                         Last(names[at + 1]) \in {"!", "+", "-"}],
                      0, Len(names)),
   names |-> names,
   klass |-> KlassOf(names, Len(names))]

\* COLS.__init__ : x, y and klass hold the `at` of the columns they refer to
NewCOLS(names) ==
  [all   |-> [k \in 1 .. Len(names) |-> NewCol(k - 1, names[k])],
   x     |-> AtsWhere([at \in Ats(names) |->
                         Last(names[at + 1]) # "X"
                         /\ Last(names[at + 1]) \notin {"!", "+", "-"}],
                      0, Len(names)),
   y     |-> AtsWhere([at \in Ats(names) |->
                         Last(names[at + 1]) # "X"
                         /\ Last(names[at + 1]) \in {"!", "+", "-"}],
                      0, Len(names)),
   names |-> names,
   klass |-> KlassOf(names, Len(names))]

RECURSIVE ColsAddFrom(_, _, _)
\* COLS.add, the comprehension from column k on: row[col.at] raises IndexError
\* when the row is too short, after the columns before it were updated
ColsAddFrom(all, row, k) ==
  IF k > Len(all) THEN [all |-> all, err |-> ""]
  ELSE IF all[k].at + 1 > Len(row) THEN [all |-> all, err |-> "IndexError"]
  ELSE IF row[all[k].at + 1] # Missing
         THEN ColsAddFrom([all EXCEPT ![k] = ColAdd(all[k], row[all[k].at + 1])], row, k + 1)
         ELSE ColsAddFrom(all, row, k + 1)

ColsAdd(cols, row) ==
  LET r == ColsAddFrom(cols.all, row, 1)
  IN  [cols |-> [cols EXCEPT !.all = r.all], err |-> r.err]

-----------------------------------------------------------------------------
(* DATA *)

\* DATA.__init__ before the first add
NewDATA == [cols |-> None, rows |-> <<>>, err |-> ""]

\* DATA.add without a visitor
DataAddTo(d, row) ==
  IF d.cols # None
    THEN LET r == ColsAdd(The(d.cols), row)
         IN  IF r.err = ""
               THEN [d EXCEPT !.cols = Some(r.cols), !.rows = d.rows \o <<row>>]
               ELSE [d EXCEPT !.cols = Some(r.cols), !.err = r.err]
    ELSE [d EXCEPT !.cols = Some(NewCOLS(row))]

RECURSIVE DataFrom(_, _)
\* DATA(src) for a src that raises nothing: add the rows one after the other
DataFrom(d, src) ==
  IF src = <<>> THEN d ELSE DataFrom(DataAddTo(d, Head(src)), Tail(src))

\* DATA.clone without ordering
Clone(d, lst) == DataFrom(NewDATA, <<The(d.cols).names>> \o lst)

-----------------------------------------------------------------------------
(* Counter, entropy, BIN *)

\* Counter(): no label counted
Counter0 == [y \in {} |-> 0]

\* Counter.__add__ : the sum of two counters; only positive counts are kept
CounterSum(a, b) ==
  [y \in { z \in DOMAIN a \cup DOMAIN b : HasGet(a, z) + HasGet(b, z) > 0 } |->
     HasGet(a, y) + HasGet(b, y)]

RECURSIVE SumOver(_, _)
SumOver(d, keys) ==
  IF keys = {} THEN 0
  ELSE LET k == CHOOSE z \in keys : TRUE
       IN  (IF d[k] > 0 THEN d[k] ELSE 0) + SumOver(d, keys \ {k})

\* entropy(d)[1] : N, the sum of the positive counts
EntN(d) == SumOver(d, DOMAIN d)

RECURSIVE ProdPow(_, _)
\* the product of n^n over the positive counts n of d
ProdPow(d, keys) ==
  IF keys = {} THEN 1
  ELSE LET k == CHOOSE z \in keys : TRUE
       IN  (IF d[k] > 0 THEN Pow(d[k], d[k]) ELSE 1) * ProdPow(d, keys \ {k})

\* entropy(d)[0] is e = -sum(n/N*log2(n/N)), so 2^(N*e) = N^N / prod(n^n):
\* the pair <<N^N, prod(n^n)>> stands for N*e
EntPair(d) == <<Pow(EntN(d), EntN(d)), ProdPow(d, DOMAIN d)>>

\* BIN.__init__ with the falsy default of hi: hi and ys are None or a value;
\* `hi or lo` takes lo when hi is None or 0, `ys or Counter()` takes the
\* empty counter when ys is None or empty (the id is display only)
NewBIN(at, txt, lo, hi, ys) ==
  [at  |-> at,
   txt |-> txt,
   lo  |-> lo,
   hi  |-> IF hi = None THEN lo ELSE IF The(hi) = 0 THEN lo ELSE The(hi),
   ys  |-> IF ys = None THEN Counter0 ELSE The(ys)]

\* BIN.add
BinAdd(i, x, y) ==
  [i EXCEPT !.lo = Min2(x, i.lo),
            !.hi = Max2(x, i.hi),
            !.ys = HasPut(i.ys, y, HasGet(i.ys, y) + 1)]

\* the k of BIN.merge
BinUnion(i, j) ==
  NewBIN(i.at, i.txt, Min2(i.lo, j.lo), Some(Max2(i.hi, j.hi)),
         Some(CounterSum(i.ys, j.ys)))

\* ni < small, for the rational small
LessThanRat(n, small) == n * small[2] < small[1]

\* ek <= (ni*ei + nj*ej)/nk, that is 2^(nk*ek) <= 2^(ni*ei) * 2^(nj*ej)
Simpler(i, j, k) ==
  LET ei == EntPair(i.ys)
      ej == EntPair(j.ys)
      ek == EntPair(k.ys)
  IN  ek[1] * ei[2] * ej[2] <= ei[1] * ej[1] * ek[2]

\* BIN.merge : the merged bin, or None (bins that hold at least one value)
BinMerge(i, j, small) ==
  IF i.at = j.at
    THEN LET k == BinUnion(i, j)
         IN  IF LessThanRat(EntN(i.ys), small) \/ LessThanRat(EntN(j.ys), small)
               THEN Some(k)
               ELSE IF Simpler(i, j, k) THEN Some(k) ELSE None
    ELSE None

\* BIN.selects
Selects(i, row) ==
  LET x == row[i.at + 1]
  IN  x = Missing \/ (i.lo = x /\ x = i.hi) \/ (i.lo <= x /\ x < i.hi)

-----------------------------------------------------------------------------
(* merges *)

\* the call merge(a, b) of a caller-supplied function: m is either the lambda
\* of NUM.binsComplete, x.merge(y, small), or a function given as a table
Apply(m, a, b) ==
  IF m.kind = "BIN.merge" THEN BinMerge(a, b, m.small) ELSE m.f[<<a, b>>]

RECURSIVE Scan(_, _, _, _)
\* the while loop of merges, from Python index j - 1 on
Scan(b4, j, now, m) ==
  IF j > Len(b4) THEN now
  ELSE LET a   == b4[j]
           tmp == IF j < Len(b4) THEN Apply(m, a, b4[j + 1]) ELSE None
       IN  IF tmp # None
             THEN Scan(b4, j + 2, now \o <<The(tmp)>>, m)
             ELSE Scan(b4, j + 1, now \o <<a>>, m)

\* merges with the recursion left out: one pass only
merges_OnePass(b4, m) ==
  LET now == Scan(b4, 1, <<>>, m)
  IN  IF Len(now) = Len(b4) THEN b4 ELSE now

RECURSIVE merges(_, _)
merges(b4, m) ==
  LET now == Scan(b4, 1, <<>>, m)
  IN  IF Len(now) = Len(b4) THEN b4 ELSE merges(now, m)

-----------------------------------------------------------------------------
(* COL.bins, NUM.bin, NUM.binsComplete *)

\* tiny = 1/big : (x - lo)/tiny is (x - lo)*big
\* NUM.norm for a number x; hi - lo + tiny is hi - lo unless hi = lo
Norm(col, x) ==
  IF col.hi = col.lo THEN RInt((x - col.lo) * big) ELSE Rat(x - col.lo, col.hi - col.lo)

\* NUM.bin
NumBin(col, x, Bins) ==
  LET r == Norm(col, x)
  IN  Min2(Bins - 1, Trunc(Bins * r[1], r[2]))

\* COL.bin : SYM.bin is the identity
ColBin(col, x, Bins) == IF col.isNum THEN NumBin(col, x, Bins) ELSE x

RECURSIVE Send2Bins(_, _, _, _)
\* the comprehension of COL.bins over the <<y, row>> pairs in iteration
\* order: out maps a bin key to its BIN
Send2Bins(col, pairs, out, Bins) ==
  IF pairs = <<>> THEN out
  ELSE LET y  == Head(pairs)[1]
           x  == Head(pairs)[2][col.at + 1]
           k  == ColBin(col, x, Bins)
           b0 == IF k \in DOMAIN out THEN out[k]
                 ELSE NewBIN(col.at, col.txt, x, None, None)
       IN  IF x = Missing THEN Send2Bins(col, Tail(pairs), out, Bins)
           ELSE Send2Bins(col, Tail(pairs),
                          [q \in DOMAIN out \cup {k} |->
                             IF q = k THEN BinAdd(b0, x, y) ELSE out[q]],
                          Bins)

RECURSIVE SortByLo(_)
\* sorted(out.values(), key=lambda z: z.lo) for bins of distinct lo
SortByLo(bs) ==
  IF bs = {} THEN <<>>
  ELSE LET b == CHOOSE z \in bs : \A w \in bs : z.lo <= w.lo
       IN  <<b>> \o SortByLo(bs \ {b})

\* the stitching of NUM.binsComplete without its for loop
Stitch_NoLoop(bins) ==
  [j \in 1 .. Len(bins) |->
     [bins[j] EXCEPT !.lo = IF j = 1 THEN -big ELSE bins[j].lo,
                     !.hi = IF j = Len(bins) THEN big ELSE bins[j].hi]]

\* the stitching of NUM.binsComplete: bins[0].lo = -big, bins[-1].hi = big,
\* and then, from left to right, bins[j].lo = bins[j-1].hi
Stitch(bins) ==
  [j \in 1 .. Len(bins) |->
     [bins[j] EXCEPT !.lo = IF j = 1 THEN -big ELSE bins[j - 1].hi,
                     !.hi = IF j = Len(bins) THEN big ELSE bins[j].hi]]

\* NUM.binsComplete ; bins[0] of an empty list raises IndexError
NumBinsComplete(bins, small) ==
  LET merged == merges(bins, [kind |-> "BIN.merge", small |-> small])
  IN  IF merged = <<>> THEN [err |-> "IndexError", bins |-> <<>>]
      ELSE [err |-> "", bins |-> Stitch(merged)]

RECURSIVE Pairs(_)
\* for y, lst in classes.items() for row in lst : the <<y, row>> pairs
Pairs(classes) ==
  IF classes = <<>> THEN <<>>
  ELSE [k \in 1 .. Len(Head(classes)[2]) |-> <<Head(classes)[1], Head(classes)[2][k]>>]
       \o Pairs(Tail(classes))

RECURSIVE TotalRows(_)
\* sum(len(lst) for lst in classes.values())
TotalRows(classes) ==
  IF classes = <<>> THEN 0 ELSE Len(Head(classes)[2]) + TotalRows(Tail(classes))

\* COL.bins ; classes is the dict as the sequence of its <<label, rows>> items,
\* small is None or a rational
ColBins(col, classes, small, Bins) ==
  LET out    == Send2Bins(col, Pairs(classes), <<>>, Bins)
      sorted == SortByLo({ out[k] : k \in DOMAIN out })
      sm     == IF small = None THEN Rat(TotalRows(classes), Bins)
                ELSE IF The(small)[1] = 0 THEN Rat(TotalRows(classes), Bins)
                ELSE The(small)
  IN  IF col.isNum THEN NumBinsComplete(sorted, sm)
      ELSE [err |-> "", bins |-> sorted]

-----------------------------------------------------------------------------
(* Ranking and likelihood of DATA (columns that hold numbers; SYM x columns) *)

RLess(a, b) == a[1] * b[2] < b[1] * a[2]

RECURSIVE InsertByKey(_, _, _)
\* x put into the list sorted by key, after every element whose key is not larger
InsertByKey(sorted, x, key) ==
  IF sorted = <<>> THEN <<x>>
  ELSE IF RLess(key[x], key[Head(sorted)]) THEN <<x>> \o sorted
  ELSE <<Head(sorted)>> \o InsertByKey(Tail(sorted), x, key)

RECURSIVE SortedByKey(_, _)
\* sorted(lst, key=...) : ascending and stable; key maps an element to a rational
SortedByKey(lst, key) ==
  IF lst = <<>> THEN <<>>
  ELSE InsertByKey(SortedByKey(SubSeq(lst, 1, Len(lst) - 1), key), lst[Len(lst)], key)

\* NUM.d2h : abs(norm(x) - heaven)
NumD2h(col, x) ==
  LET d == RSub(Norm(col, x), RInt(col.heaven))
  IN  Rat(Abs(d[1]), d[2])

RECURSIVE SumSq(_, _, _)
\* sum(col.d2h(row[col.at])**2 for col in cols.y), from the k-th y column on
SumSq(cols, row, k) ==
  IF k > Len(cols.y) THEN RInt(0)
  ELSE LET col == cols.all[cols.y[k] + 1]
           d   == NumD2h(col, row[col.at + 1])
       IN  RAdd(RMul(d, d), SumSq(cols, row, k + 1))

\* DATA.d2h squared: d/len(cols.y) ; the square root keeps the order of rows
\* (datas with at least one y column)
D2hSq(d, row) == RMul(SumSq(The(d.cols), row, 1), Rat(1, Len(The(d.cols).y)))

\* the.k and the.m
the_k == 1

the_m == 2

\* SYM.like
SymLike(col, x, prior) ==
  RMul(RAdd(RInt(HasGet(col.has, x)), RMul(RInt(the_m), prior)), Rat(1, col.n + the_m))

RECURSIVE LikesProd(_, _, _, _)
\* the product of the likes of the x columns from the j-th on that are > 0
LikesProd(cols, row, prior, j) ==
  IF j > Len(cols.x) THEN RInt(1)
  ELSE LET col == cols.all[cols.x[j] + 1]
           x   == row[col.at + 1]
           l   == SymLike(col, x, prior)
       IN  IF x # Missing /\ l[1] > 0
             THEN RMul(l, LikesProd(cols, row, prior, j + 1))
             ELSE LikesProd(cols, row, prior, j + 1)

\* DATA.loglike : the rational whose natural logarithm loglike returns
LikeProd(d, row, nall, nh) ==
  LET prior == Rat(Len(d.rows) + the_k, nall + the_k * nh)
  IN  RMul(LikesProd(The(d.cols), row, prior, 1),
           IF prior[1] > 0 THEN prior ELSE RInt(1))

-----------------------------------------------------------------------------
(* smo : a row is referred to by its place in data0.rows after the shuffle *)

RowsAt(rows, idxs) == [j \in 1 .. Len(idxs) |-> rows[idxs[j]]]

Range(seq) == { seq[j] : j \in DOMAIN seq }

\* data0.clone(lst, order=True).rows for the rows lst = idxs of data0
CloneOrdered(data0, idxs) ==
  LET d == Clone(data0, RowsAt(data0.rows, idxs))
  IN  SortedByKey(idxs, [r \in Range(idxs) |-> D2hSq(d, data0.rows[r])])

\* int(len**the.best + .5) for the.best = .5 : the n with (2n - 1)^2 <= 4*len
\* and 4*len < (2n + 1)^2
BestSize(len) ==
  CHOOSE n \in 0 .. len : (2 * n - 1) * (2 * n - 1) <= 4 * len
                           /\ 4 * len < (2 * n + 1) * (2 * n + 1)

\* acquire(best, rest, rows) : the rows sorted by -score(like(r, best),
\* like(r, rest)) for score = B - R, cut after int(len(rows) * the.Top);
\* -(B - R) is the logarithm of LikeProd(rest)/LikeProd(best)
AcquireKeys(data0, best, rest, rows) ==
  [r \in Range(rows) |->
     LET B == LikeProd(best, data0.rows[r], Len(best.rows), 2)
         R == LikeProd(rest, data0.rows[r], Len(rest.rows), 2)
     IN  Rat(R[1] * B[2], R[2] * B[1])]

\* acquire without the cut [:chop]
Acquire_NoChop(data0, best, rest, rows, Top) ==
  SortedByKey(rows, AcquireKeys(data0, best, rest, rows))

Acquire(data0, best, rest, rows, Top) ==
  LET chop == Trunc(Len(rows) * Top[1], Top[2])
  IN  SubSeq(SortedByKey(rows, AcquireKeys(data0, best, rest, rows)), 1, chop)

\* the two clones of one iteration: data0.clone(data1.rows[:n]) and
\* data0.clone(data1.rows[n:])
BestOf(data0, data1, done) ==
  Clone(data0, RowsAt(data0.rows, SubSeq(data1, 1, BestSize(Len(done)))))

RestOf(data0, data1, done) ==
  Clone(data0, RowsAt(data0.rows, SubSeq(data1, BestSize(Len(done)) + 1, Len(data1))))

-----------------------------------------------------------------------------
(* BIN.selectsRejects and tree *)

\* BIN.selectsRejects : `what` is a dict, and what.add(row) raises
\* AttributeError for the first row that is reached; with no row at all
\* the two empty dicts are returned
SelectsRejects(bin, classes) ==
  IF Pairs(classes) = <<>>
    THEN [err |-> "", yes |-> <<>>, no |-> <<>>]
    ELSE [err |-> "AttributeError", yes |-> <<>>, no |-> <<>>]

\* classes[key] for a key of the dict
ClassGet(classes, key) == (CHOOSE j \in DOMAIN classes : classes[j][1] = key) 

ClassRows(classes, key) == classes[ClassGet(classes, key)][2]

RECURSIVE AllBins(_, _, _, _)
\* BINS of tree: [bin for col in data.cols.x for bin in col.bins(classes)],
\* from the j-th x column on
AllBins(d, classes, Bins, j) ==
  IF j > Len(The(d.cols).x) THEN [err |-> "", bins |-> <<>>]
  ELSE LET col  == The(d.cols).all[The(d.cols).x[j] + 1]
           mine == ColBins(col, classes, None, Bins)
           more == AllBins(d, classes, Bins, j + 1)
       IN  IF mine.err # "" THEN mine
           ELSE IF more.err # "" THEN more
           ELSE [err |-> "", bins |-> mine.bins \o more.bins]

\* how many rows of the pairs the bin selects, for the label best or the others
RECURSIVE CountSel(_, _, _, _)
CountSel(bin, pairs, best, forBest) ==
  IF pairs = <<>> THEN 0
  ELSE (IF Selects(bin, Head(pairs)[2]) /\ ((Head(pairs)[1] = best) = forBest)
          THEN 1 ELSE 0)
       + CountSel(bin, Tail(pairs), best, forBest)

\* n/(N + tiny) : tiny only matters for N = 0, where n = 0 as well
OverTiny(n, N) == IF N = 0 THEN RInt(n * big) ELSE Rat(n, N)

\* order(bin) of grow, for score = B - R
Order(bin, classes, best, BEST, REST) ==
  RSub(OverTiny(CountSel(bin, Pairs(classes), best, TRUE), BEST),
       OverTiny(CountSel(bin, Pairs(classes), best, FALSE), REST))

RECURSIVE MaxBy(_, _, _)
\* max(BINS, key=order) : the first of the largest, key[j] the key of BINS[j]
MaxBy(key, j, sofar) ==
  IF j > Len(key) THEN sofar
  ELSE MaxBy(key, j + 1, IF RLess(key[sofar], key[j]) THEN j ELSE sofar)

RECURSIVE Grow(_, _, _, _)
\* grow(classes, lvl, above) ; t holds best, BEST, REST, BINS and the.leaf
Grow(classes, lvl, above, t) ==
  LET nBest == Len(ClassRows(classes, t.best))
  IN  IF nBest <= t.leaf \/ nBest = above
        THEN [err |-> "", isLeaf |-> TRUE, yes |-> classes, lvl |-> lvl]
        ELSE LET key == [j \in 1 .. Len(t.BINS) |->
                           Order(t.BINS[j], classes, t.best, t.BEST, t.REST)]
                 bin == t.BINS[MaxBy(key, 2, 1)]
                 yn  == SelectsRejects(bin, classes)
             IN  IF yn.err # "" THEN [err |-> yn.err]
                 ELSE LET yes == Grow(yn.yes, lvl + 1, nBest, t)
                          no  == Grow(yn.no, lvl + 1, nBest, t)
                      IN  IF yes.err # "" THEN yes
                          ELSE IF no.err # "" THEN no
                          ELSE [err |-> "", isLeaf |-> FALSE, lvl |-> lvl,
                                at |-> bin.at, txt |-> bin.txt,
                                lo |-> bin.lo, hi |-> bin.hi,
                                yes |-> yes, no |-> no]

\* tree(data, classes, best, rest)
Tree(d, classes, best, rest, Bins, leaf) ==
  LET BINS == AllBins(d, classes, Bins, 1)
  IN  IF BINS.err # "" THEN [err |-> BINS.err]
      ELSE Grow(classes, 0, Len(ClassRows(classes, best)),
                [best |-> best, BEST |-> Len(ClassRows(classes, best)),
                 REST |-> Len(ClassRows(classes, rest)),
                 BINS |-> BINS.bins, leaf |-> leaf])

-----------------------------------------------------------------------------
(* NB : i.datas is the dict as the sequence of its <<label, DATA>> items *)

NewNB == [nall |-> 0, datas |-> <<>>, acc |-> 0]

Keys(dict) == { dict[j][1] : j \in DOMAIN dict }

\* NB.classify (at least one class is known)
Classify(nb, row) ==
  LET key == [j \in 1 .. Len(nb.datas) |->
                LikeProd(nb.datas[j][2], row, nb.nall, Len(nb.datas))]
  IN  nb.datas[MaxBy(key, 2, 1)][1]

\* the last two lines of NB.run: the class of `want` is created on its first
\* sighting, and the row is added to it
Train(nb, d, row, want) ==
  LET datas1 == IF want \in Keys(nb.datas) THEN nb.datas
                ELSE nb.datas \o << <<want, Clone(d, <<>>)>> >>
  IN  [nb EXCEPT !.datas = [j \in 1 .. Len(datas1) |->
                              IF datas1[j][1] = want
                                THEN <<want, DataAddTo(datas1[j][2], row)>>
                                ELSE datas1[j]]]

\* NB.run with the two halves swapped: train, then classify
NbRun_TrainFirst(nb, d, row) ==
  LET want == row[The(The(d.cols).klass) + 1]
      nb1  == Train([nb EXCEPT !.nall = nb.nall + 1], d, row, want)
  IN  IF nb1.nall > 10
        THEN [nb  |-> [nb1 EXCEPT !.acc = nb1.acc + (IF want = Classify(nb1, row) THEN 1 ELSE 0)],
              got |-> Some(Classify(nb1, row))]
        ELSE [nb |-> nb1, got |-> None]

\* NB.run : the new NB and what classify returned (None when it was not called)
NbRun(nb, d, row) ==
  LET want == row[The(The(d.cols).klass) + 1]
      nb1  == [nb EXCEPT !.nall = nb.nall + 1]
  IN  IF nb1.nall > 10
        THEN LET got == Classify(nb1, row)
             IN  [nb  |-> Train([nb1 EXCEPT !.acc = nb1.acc + (IF want = got THEN 1 ELSE 0)],
                                d, row, want),
                  got |-> Some(got)]
        ELSE [nb |-> Train(nb1, d, row, want), got |-> None]

-----------------------------------------------------------------------------
(* Inputs of the DATA machine *)

\* the header of MAIN.header
Auto93 ==
  << <<"C","l","n","d","r","s">>, <<"V","o","l","u","m","e">>, <<"H","p","X">>,
     <<"M","o","d","e","l">>, <<"o","r","i","g","i","n">>, <<"L","b","s","-">>,
     <<"A","c","c","+">>, <<"M","p","g","+">> >>

NamePool ==
  { <<"H","p","X">>, <<"o","r","i","g","i","n">>, <<"L","b","s","-">>,
    <<"A","c","c","+">>, <<"c","l","a","s","s","!">>, <<"M","o","d","e","l">> }

MaxNames == 3

SeqsUpTo(S, n) == UNION { [1 .. k -> S] : k \in 1 .. n }

Headers == SeqsUpTo(NamePool, MaxNames) \cup {Auto93}

\* the headers and cells of the row-adding runs
RowHeaders ==
  { << <<"A">> >>, << <<"A">>, <<"b">> >>, << <<"b">>, <<"C","-">> >>,
    << <<"A">>, <<"b">>, <<"C","-">> >> }

Cells == {1, 2, Missing}

MaxDataRows == 2

RowsFor(names) == UNION { [1 .. k -> Cells] : k \in 0 .. (Len(names) + 1) }

-----------------------------------------------------------------------------
(* The DATA machine: DATA(src) adds the header, then the rows *)

\* a machine that is not running
Idle == [pc |-> "idle"]

InitData ==
  /\ data = NewDATA
  /\ lastRow = None
  /\ binrun = Idle
  /\ mrun = Idle
  /\ smoS = Idle
  /\ treeS = Idle
  /\ nbS = Idle

\* DATA.add, first row: the header becomes the COLS
DataAddHeader(H) ==
  /\ data.cols = None
  /\ \E names \in H :
        /\ data' = DataAddTo(data, names)
        /\ lastRow' = Some(names)
  /\ UNCHANGED <<binrun, mrun, smoS, treeS, nbS>>

\* DATA.add, later rows
DataAddRow ==
  /\ data.cols # None
  /\ data.err = ""
  /\ Len(data.rows) < MaxDataRows
  /\ \E row \in RowsFor(The(data.cols).names) :
        /\ data' = DataAddTo(data, row)
        /\ lastRow' = Some(row)
  /\ UNCHANGED <<binrun, mrun, smoS, treeS, nbS>>

HeaderOnly == DataAddHeader(Headers)

NextCols == HeaderOnly

SpecCols == InitData /\ [][NextCols]_vars

RowHeader == DataAddHeader(RowHeaders)

NextData == RowHeader \/ DataAddRow

SpecData == InitData /\ [][NextData]_vars

-----------------------------------------------------------------------------
(* Properties of the DATA machine *)

InSeq(s, v) == \E k \in DOMAIN s : s[k] = v

\* C9: COLS keeps every column in `all` in declaration order; a column whose
\* name ends in "X" is in neither x nor y, one whose name ends in "!", "+" or
\* "-" is in y only, any other is in x only; for the header of MAIN.header
\* y is Lbs-, Acc+, Mpg+ and x is Clndrs, Volume, Model, origin.
C9_Roles ==
  data.cols # None =>
    LET c == The(data.cols)
    IN  /\ Len(c.all) = Len(c.names)
        /\ \A k \in 1 .. Len(c.names) :
              c.all[k].at = k - 1 /\ c.all[k].txt = c.names[k]
        /\ \A at \in Ats(c.names) :
              LET z == Last(c.names[at + 1])
              IN  /\ z = "X" => ~InSeq(c.x, at) /\ ~InSeq(c.y, at)
                  /\ z \in {"!", "+", "-"} => InSeq(c.y, at) /\ ~InSeq(c.x, at)
                  /\ z \notin {"X", "!", "+", "-"} => InSeq(c.x, at) /\ ~InSeq(c.y, at)
        /\ \A k \in DOMAIN c.x : c.x[k] \in Ats(c.names)
        /\ \A k \in DOMAIN c.y : c.y[k] \in Ats(c.names)
        /\ c.names = Auto93 => c.y = <<5, 6, 7>> /\ c.x = <<0, 1, 3, 4>>

\* the header of MAIN.header has been read
C9_Witness == data.cols # None /\ The(data.cols).names = Auto93

\* C4: an add that fails (the row's length disagrees with the header) leaves
\* every column summary and the row list exactly as they were before the call
C4_AllOrNothing ==
  [][ (data.cols # None /\ data.err = "" /\ data'.err # "")
      => (data'.cols = data.cols /\ data'.rows = data.rows) ]_vars

-----------------------------------------------------------------------------
(* The discretizer machine: a DATA over the header b, A is read, some of its
   rows are put in the classes best and rest, and the NUM column A bins them *)

BinHeader == << <<"b">>, <<"A">> >>

BinVals == {-3, -1, 0, 2, Missing}

MaxBinRows == 3

\* the.Bins : the default and a small setting
BinsSettings == {16, 2}

RECURSIVE RowsWith(_, _, _)
\* the rows whose label is y, in order
RowsWith(rows, lab, y) ==
  IF rows = <<>> THEN <<>>
  ELSE (IF Head(lab) = y THEN <<Head(rows)>> ELSE <<>>)
       \o RowsWith(Tail(rows), Tail(lab), y)

ClassesOf(rows, lab) ==
  << <<"best", RowsWith(rows, lab, "best")>>, <<"rest", RowsWith(rows, lab, "rest")>> >>

InitBins ==
  /\ \E n \in 1 .. MaxBinRows :
       \E vs \in [1 .. n -> BinVals] :
         \E lab \in [1 .. n -> {"best", "rest", "none"}] :
           \E B \in BinsSettings :
             LET rows == [k \in 1 .. n |-> <<1, vs[k]>>]
             IN  /\ data = DataFrom(NewDATA, <<BinHeader>> \o rows)
                 /\ binrun = [pc |-> "ready", classes |-> ClassesOf(rows, lab),
                              Bins |-> B, out |-> None]
  /\ lastRow = None
  /\ mrun = Idle
  /\ smoS = Idle
  /\ treeS = Idle
  /\ nbS = Idle

\* col.bins(classes) for the column A of the data
BinsCall ==
  /\ binrun.pc = "ready"
  /\ binrun' = [binrun EXCEPT
                  !.pc = "done",
                  !.out = Some(ColBins(The(data.cols).all[2], binrun.classes,
                                       None, binrun.Bins))]
  /\ UNCHANGED <<data, lastRow, mrun, smoS, treeS, nbS>>

NextBins == BinsCall

SpecBins == InitBins /\ [][NextBins]_vars

\* the values of column `at` that are not missing, over the classes
ValuesAt(classes, at) ==
  { p[2][at + 1] : p \in { Pairs(classes)[k] : k \in DOMAIN Pairs(classes) } } \ {Missing}

\* C1: for a NUM column and classes that hold a value of it, the bins of
\* COL.bins are ordered by lo, start at -big, end at big, each later bin starts
\* where the one before ends, and each value is selected by exactly one bin
C1_BinsPartition ==
  (binrun.pc = "done" /\ ValuesAt(binrun.classes, 1) # {}) =>
    LET out  == The(binrun.out)
        bins == out.bins
    IN  /\ out.err = ""
        /\ Len(bins) >= 1
        /\ bins[1].lo = -big
        /\ bins[Len(bins)].hi = big
        /\ \A j \in 2 .. Len(bins) :
              bins[j].lo = bins[j - 1].hi /\ bins[j - 1].lo <= bins[j].lo
        /\ \A v \in ValuesAt(binrun.classes, 1) :
              Cardinality({ j \in 1 .. Len(bins) : Selects(bins[j], <<1, v>>) }) = 1

\* bins were merged and stitched: three values in both classes end in two bins
C1_Witness ==
  /\ binrun.pc = "done"
  /\ Cardinality(ValuesAt(binrun.classes, 1)) = 3
  /\ The(binrun.out).err = ""
  /\ Len(The(binrun.out).bins) = 2

-----------------------------------------------------------------------------
(* The merge machine: two bins are filled by BIN() and BIN.add, then merged *)

MergeVals == {-2, -1, 0, 1}

MergeTxt(at) == IF at = 0 THEN <<"A">> ELSE <<"B">>

\* BIN(at, txt, x) followed by add(x, y) for the <<x, y>> of adds, as send2bin
\* fills a bin
RECURSIVE Filled(_, _)
Filled(b, adds) ==
  IF adds = <<>> THEN b ELSE Filled(BinAdd(b, Head(adds)[1], Head(adds)[2]), Tail(adds))

FilledBins ==
  { Filled(NewBIN(at, MergeTxt(at), adds[1][1], None, None), adds) :
      at \in {0, 1},
      adds \in SeqsUpTo(MergeVals \X {"best", "rest"}, 2) }

\* the small of the call: above and below the counts of the bins
MergeSmalls == {Rat(3, 1), Rat(1, 4)}

InitMerge ==
  /\ \E i \in FilledBins :
       \E j \in FilledBins :
         \E small \in MergeSmalls :
           binrun = [pc |-> "ready", i |-> i, j |-> j, small |-> small, out |-> None]
  /\ data = NewDATA
  /\ lastRow = None
  /\ mrun = Idle
  /\ smoS = Idle
  /\ treeS = Idle
  /\ nbS = Idle

\* i.merge(j, small)
MergeCall ==
  /\ binrun.pc = "ready"
  /\ binrun' = [binrun EXCEPT !.pc = "done",
                              !.out = BinMerge(binrun.i, binrun.j, binrun.small)]
  /\ UNCHANGED <<data, lastRow, mrun, smoS, treeS, nbS>>

NextMerge == MergeCall

SpecMerge == InitMerge /\ [][NextMerge]_vars

\* C10: when either bin is smaller than small, the merge of two bins of one
\* column is their union (lo the smaller lo, hi the larger hi, ys the sum of
\* the counts); bins of different columns give no bin
C10_MergeUnion ==
  binrun.pc = "done" =>
    LET i == binrun.i
        j == binrun.j
    IN  /\ (i.at = j.at
             /\ (LessThanRat(EntN(i.ys), binrun.small)
                   \/ LessThanRat(EntN(j.ys), binrun.small)))
            => /\ binrun.out # None
               /\ The(binrun.out).lo = Min2(i.lo, j.lo)
               /\ The(binrun.out).hi = Max2(i.hi, j.hi)
               /\ The(binrun.out).ys = CounterSum(i.ys, j.ys)
        /\ i.at # j.at => binrun.out = None

-----------------------------------------------------------------------------
(* The merges machine: merges(b4, merge) for a list of abstract bins and a
   deterministic merge function given as a table, then merges on its result *)

MElems == {1, 2}

MaxLen == 4

\* every function from pairs of bins to a bin or None
MergeTables == [MElems \X MElems -> {None} \cup { Some(e) : e \in MElems }]

InitMerges ==
  /\ \E b4 \in {<<>>} \cup SeqsUpTo(MElems, MaxLen) :
       \E f \in MergeTables :
         mrun = [pc |-> "ready", b4 |-> b4, m |-> [kind |-> "table", f |-> f],
                 out |-> <<>>, out2 |-> <<>>]
  /\ data = NewDATA
  /\ lastRow = None
  /\ binrun = Idle
  /\ smoS = Idle
  /\ treeS = Idle
  /\ nbS = Idle

\* merges(b4, merge)
MergesCall ==
  /\ mrun.pc = "ready"
  /\ mrun' = [mrun EXCEPT !.pc = "done", !.out = merges(mrun.b4, mrun.m)]
  /\ UNCHANGED <<data, lastRow, binrun, smoS, treeS, nbS>>

\* merges(out, merge) : the scan again, on its own result
MergesAgain ==
  /\ mrun.pc = "done"
  /\ mrun' = [mrun EXCEPT !.pc = "again", !.out2 = merges(mrun.out, mrun.m)]
  /\ UNCHANGED <<data, lastRow, binrun, smoS, treeS, nbS>>

NextMerges == MergesCall \/ MergesAgain

SpecMerges == InitMerges /\ [][NextMerges]_vars

\* no two neighbours of the list can be merged
Converged(lst, m) == \A k \in 1 .. (Len(lst) - 1) : Apply(m, lst[k], lst[k + 1]) = None

\* C8: merges returns a list in which no two neighbours can be merged, never
\* longer than its input; a list that has no mergeable neighbours is returned
\* as it is; merges on its own result returns that result
C8_MergesConverge ==
  /\ mrun.pc \in {"done", "again"} =>
       /\ Converged(mrun.out, mrun.m)
       /\ Len(mrun.out) <= Len(mrun.b4)
       /\ Converged(mrun.b4, mrun.m) => mrun.out = mrun.b4
  /\ mrun.pc = "again" => mrun.out2 = mrun.out

\* the scan merged some bins, needed a second pass, and ran again on a result
\* that still holds an unmergeable pair
C8_Witness ==
  /\ mrun.pc = "again"
  /\ Len(mrun.out) >= 2
  /\ Len(mrun.out) < Len(Scan(mrun.b4, 1, <<>>, mrun.m))

-----------------------------------------------------------------------------
(* The smo machine: smo(data0) over the header a, Y- *)

SmoHeader == << <<"a">>, <<"Y","-">> >>

SmoRowKinds == { <<1, 0>>, <<2, 1>>, <<1, 2>> }

MaxSmoRows == 5

\* the.budget0, the.Budget, the.Top : the defaults 4, 16, .8 and others
Budget0s == {1, 4}

Budgets == {0, 1, 16}

Tops == { Rat(8, 10), Rat(1, 1), Rat(3, 10) }

RECURSIVE Orders(_)
\* every order in which the places of the set S can be listed
Orders(S) ==
  IF S = {} THEN {<<>>}
  ELSE UNION { { <<x>> \o p : p \in Orders(S \ {x}) } : x \in S }

\* random.shuffle(rows) : the rows in any order
Shuffles(rows) == { RowsAt(rows, p) : p \in Orders(DOMAIN rows) }

InitSmo ==
  /\ \E rows \in SeqsUpTo(SmoRowKinds, MaxSmoRows) :
       smoS = [pc |-> "shuffle", data0 |-> DataFrom(NewDATA, <<SmoHeader>> \o rows),
               budget0 |-> 0, Budget |-> 0, Top |-> RInt(0),
               done |-> <<>>, todo |-> <<>>, data1 |-> <<>>, i |-> 0,
               ret |-> None, err |-> ""]
  /\ data = NewDATA
  /\ lastRow = None
  /\ binrun = Idle
  /\ mrun = Idle
  /\ treeS = Idle
  /\ nbS = Idle

\* random.shuffle(data0.rows)
SmoShuffle ==
  /\ smoS.pc = "shuffle"
  /\ \E shuffled \in Shuffles(smoS.data0.rows) :
       smoS' = [smoS EXCEPT !.pc = "split", !.data0.rows = shuffled]
  /\ UNCHANGED <<data, lastRow, binrun, mrun, treeS, nbS>>

\* lst[:n] and lst[n:] of a list of len places, as places
SliceTo(len, n) == [j \in 1 .. Min2(n, len) |-> j]

SliceFrom(len, n) == [j \in 1 .. (len - Min2(n, len)) |-> Min2(n, len) + j]

\* done, todo = data0.rows[:the.budget0], data0.rows[the.budget0:] and the
\* first data1; the settings the.budget0, the.Budget and the.Top are read
\* from here on
SmoSplit ==
  /\ smoS.pc = "split"
  /\ \E b0 \in Budget0s :
       \E B \in Budgets :
         \E T \in Tops :
           LET done == SliceTo(Len(smoS.data0.rows), b0)
           IN  smoS' = [smoS EXCEPT !.pc = "loop",
                                    !.budget0 = b0, !.Budget = B, !.Top = T,
                                    !.done = done,
                                    !.todo = SliceFrom(Len(smoS.data0.rows), b0),
                                    !.data1 = CloneOrdered(smoS.data0, done)]
  /\ UNCHANGED <<data, lastRow, binrun, mrun, treeS, nbS>>

\* one iteration of the for loop; top, *todo = [] raises ValueError
SmoIter ==
  /\ smoS.pc = "loop"
  /\ smoS.i < smoS.Budget
  /\ Len(smoS.todo) >= 3
  /\ LET got == Acquire(smoS.data0,
                        BestOf(smoS.data0, smoS.data1, smoS.done),
                        RestOf(smoS.data0, smoS.data1, smoS.done),
                        smoS.todo, smoS.Top)
     IN  IF got = <<>>
           THEN smoS' = [smoS EXCEPT !.pc = "error", !.err = "ValueError"]
           ELSE smoS' = [smoS EXCEPT
                           !.done  = smoS.done \o <<Head(got)>>,
                           !.todo  = Tail(got),
                           !.data1 = CloneOrdered(smoS.data0, smoS.done \o <<Head(got)>>),
                           !.i     = smoS.i + 1]
  /\ UNCHANGED <<data, lastRow, binrun, mrun, treeS, nbS>>

\* the loop is left (the range is exhausted, or break) : return data1.rows[0]
SmoReturn ==
  /\ smoS.pc = "loop"
  /\ smoS.i >= smoS.Budget \/ Len(smoS.todo) < 3
  /\ smoS' = [smoS EXCEPT !.pc = "done", !.ret = Some(smoS.data1[1])]
  /\ UNCHANGED <<data, lastRow, binrun, mrun, treeS, nbS>>

NextSmo == SmoShuffle \/ SmoSplit \/ SmoIter \/ SmoReturn

SpecSmo == InitSmo /\ [][NextSmo]_vars

-----------------------------------------------------------------------------
(* Properties of the smo machine *)

NoRepeat(seq) == Cardinality(Range(seq)) = Len(seq)

\* done and todo of the state st are disjoint lists of rows of data0, and done
\* holds `first` rows more than iterations were executed
SmoShape(st, first) ==
  st.pc \in {"loop", "done", "error"} =>
    /\ Range(st.done) \cap Range(st.todo) = {}
    /\ Range(st.done) \cup Range(st.todo) \subseteq DOMAIN st.data0.rows
    /\ NoRepeat(st.done) /\ NoRepeat(st.todo)
    /\ Len(st.done) = first + st.i
    /\ st.i <= st.Budget

\* the step from s to t starts the loop with the first `first` rows done, or
\* is an iteration that moves the top-scored row of the retained todo to done
SmoStep(s, t, first) ==
  /\ (s.pc = "split" /\ t.pc = "loop") =>
        /\ t.done = [j \in 1 .. first |-> j]
        /\ t.todo = [j \in 1 .. (Len(t.data0.rows) - first) |-> first + j]
  /\ (s.pc = "loop" /\ t.pc = "loop") =>
        LET key == AcquireKeys(s.data0, BestOf(s.data0, s.data1, s.done),
                               RestOf(s.data0, s.data1, s.done), s.todo)
            top == t.done[Len(t.done)]
            cut == (Range(s.todo) \ Range(t.todo)) \ {top}
        IN  /\ t.done = s.done \o <<top>>
            /\ top \in Range(s.todo)
            /\ Range(t.todo) \subseteq Range(s.todo) \ {top}
            /\ Len(t.todo) = Trunc(Len(s.todo) * s.Top[1], s.Top[2]) - 1
            /\ \A r \in Range(s.todo) : ~RLess(key[r], key[top])
            /\ \A r \in Range(t.todo) : \A q \in cut : ~RLess(key[q], key[r])
  /\ t.pc = "error" => (t.done = s.done /\ t.todo = s.todo /\ t.i = s.i)

C3_SmoReturns ==
  /\ smoS.pc # "idle" => smoS.err = ""
  /\ smoS.pc = "done" =>
       LET d1 == Clone(smoS.data0, RowsAt(smoS.data0.rows, smoS.done))
       IN  /\ smoS.i <= smoS.Budget
           /\ smoS.i < smoS.Budget => Len(smoS.todo) < 3
           /\ The(smoS.ret) \in Range(smoS.done)
           /\ \A r \in Range(smoS.done) :
                 ~RLess(D2hSq(d1, smoS.data0.rows[r]),
                        D2hSq(d1, smoS.data0.rows[The(smoS.ret)]))

-----------------------------------------------------------------------------
(* The tree machine: a DATA over the header A is read, its rows are put in
   the classes best and rest, and either tree or selectsRejects is called *)

TreeHeader == << <<"A">> >>

TreeVals == {1, 2, 3}

MaxTreeRows == 4

\* the.leaf : the default 2, and 1
Leafs == {2, 1}

InitTree ==
  /\ \E n \in 1 .. MaxTreeRows :
       \E vs \in [1 .. n -> TreeVals] :
         \E lab \in [1 .. n -> {"best", "rest"}] :
           \E leaf \in Leafs :
             LET rows == [j \in 1 .. n |-> <<vs[j]>>]
             IN  treeS = [pc |-> "ready",
                          data |-> DataFrom(NewDATA, <<TreeHeader>> \o rows),
                          classes |-> ClassesOf(rows, lab), leaf |-> leaf,
                          bin |-> None, out |-> None]
  /\ data = NewDATA
  /\ lastRow = None
  /\ binrun = Idle
  /\ mrun = Idle
  /\ smoS = Idle
  /\ nbS = Idle

\* tree(data, classes, "best", "rest") with the.Bins = 16
TreeCall ==
  /\ treeS.pc = "ready"
  /\ treeS' = [treeS EXCEPT
                 !.pc = "grown",
                 !.out = Some(Tree(treeS.data, treeS.classes, "best", "rest", 16,
                                   treeS.leaf))]
  /\ UNCHANGED <<data, lastRow, binrun, mrun, smoS, nbS>>

\* bin.selectsRejects(classes) for a bin of the column A
SelectsRejectsCall ==
  /\ treeS.pc = "ready"
  /\ \E bin \in Range(AllBins(treeS.data, treeS.classes, 16, 1).bins) :
       treeS' = [treeS EXCEPT !.pc = "split", !.bin = Some(bin),
                              !.out = Some(SelectsRejects(bin, treeS.classes))]
  /\ UNCHANGED <<data, lastRow, binrun, mrun, smoS, nbS>>

NextTree == TreeCall \/ SelectsRejectsCall

SpecTree == InitTree /\ [][NextTree]_vars

RECURSIVE Chosen(_, _, _)
\* the rows of the list that the bin selects (want) or does not select
Chosen(bin, rows, want) ==
  IF rows = <<>> THEN <<>>
  ELSE (IF Selects(bin, Head(rows)) = want THEN <<Head(rows)>> ELSE <<>>)
       \o Chosen(bin, Tail(rows), want)

\* the dict holds, under each label that has such rows, exactly the rows of
\* that label in classes which the bin selects (want) or does not select
Holds(dict, bin, classes, want) ==
  /\ \A j \in DOMAIN classes :
        Chosen(bin, classes[j][2], want) # <<>> =>
          \E q \in DOMAIN dict :
            dict[q] = <<classes[j][1], Chosen(bin, classes[j][2], want)>>
  /\ \A q \in DOMAIN dict :
        \E j \in DOMAIN classes :
          dict[q] = <<classes[j][1], Chosen(bin, classes[j][2], want)>>

\* C5: selectsRejects returns yes and no, where yes holds under each label the
\* rows of that label the bin selects and no those it does not select
C5_Partition ==
  treeS.pc = "split" =>
    /\ The(treeS.out).err = ""
    /\ Holds(The(treeS.out).yes, The(treeS.bin), treeS.classes, TRUE)
    /\ Holds(The(treeS.out).no, The(treeS.bin), treeS.classes, FALSE)

\* C6: the root is a leaf exactly when its best count is <= the.leaf (it has no
\* parent); otherwise it is an internal node with a yes and a no child at
\* depth 1
C6_RootSplits ==
  treeS.pc = "grown" =>
    LET root  == The(treeS.out)
        nBest == Len(ClassRows(treeS.classes, "best"))
    IN  /\ root.err = ""
        /\ root.isLeaf = (nBest <= treeS.leaf)
        /\ ~root.isLeaf => (root.yes.lvl = 1 /\ root.no.lvl = 1)

-----------------------------------------------------------------------------
(* The NB machine: DATA(src, fun=nb.run) over the header a, k! ; the labels
   are the numbers of the column k! *)

NbHeader == << <<"a">>, <<"k","!">> >>

NbRowKinds == { <<1, 1>>, <<2, 2>> }

MaxNbRows == 12

InitNB ==
  /\ nbS = [pc |-> "run", nb |-> NewNB,
            d |-> DataFrom(NewDATA, <<NbHeader>>),
            seen |-> <<>>, gots |-> <<>>]
  /\ data = NewDATA
  /\ lastRow = None
  /\ binrun = Idle
  /\ mrun = Idle
  /\ smoS = Idle
  /\ treeS = Idle

\* DATA.add(row, fun=nb.run) : nb.run(data, row), then the row is added;
\* seen and gots record the rows fed and what classify returned for each
NbAdd ==
  /\ nbS.pc = "run"
  /\ Len(nbS.seen) < MaxNbRows
  /\ \E row \in NbRowKinds :
       LET r == NbRun(nbS.nb, nbS.d, row)
       IN  nbS' = [nbS EXCEPT !.nb = r.nb,
                              !.d = DataAddTo(nbS.d, row),
                              !.seen = nbS.seen \o <<row>>,
                              !.gots = nbS.gots \o <<r.got>>]
  /\ UNCHANGED <<data, lastRow, binrun, mrun, smoS, treeS>>

NextNB == NbAdd

SpecNB == InitNB /\ [][NextNB]_vars

RECURSIVE LabelsFrom(_, _)
LabelsFrom(rows, sofar) ==
  IF rows = <<>> THEN sofar
  ELSE LabelsFrom(Tail(rows), IF InSeq(sofar, Head(rows)[2]) THEN sofar
                              ELSE sofar \o <<Head(rows)[2]>>)

\* the labels of the rows, each once, in the order of their first sighting
LabelsOf(rows) == LabelsFrom(rows, <<>>)

RECURSIVE Labelled(_, _)
\* the rows with label y, in order
Labelled(rows, y) ==
  IF rows = <<>> THEN <<>>
  ELSE (IF Head(rows)[2] = y THEN <<Head(rows)>> ELSE <<>>) \o Labelled(Tail(rows), y)

\* the class models trained on exactly these rows
ModelsOf(rows) ==
  LET labels == LabelsOf(rows)
  IN  [nall  |-> Len(rows),
       acc   |-> 0,
       datas |-> [j \in 1 .. Len(labels) |->
                    <<labels[j],
                      DataFrom(NewDATA, <<NbHeader>> \o Labelled(rows, labels[j]))>>]]

\* how many rows were classified as their own label
Hits(rows, gots) == Cardinality({ j \in DOMAIN rows : gots[j] = Some(rows[j][2]) })

\* C7: the first 10 rows are not classified; each later row is classified by
\* the models trained on the rows before it and only then added; each row is
\* added to the DATA of its own label, created at the first sighting of the
\* label; so nall = N, the class row counts sum to N, each class holds the
\* rows of its label, and 0 <= acc <= max(0, N - 10)
C7_OnlineNB ==
  nbS.pc = "run" =>
    LET N  == Len(nbS.seen)
        nb == nbS.nb
    IN  /\ nb.nall = N
        /\ \A j \in 1 .. N :
              IF j <= 10 THEN nbS.gots[j] = None
              ELSE \A before \in {ModelsOf(SubSeq(nbS.seen, 1, j - 1))} :
                     nbS.gots[j] =
                       Some(Classify([before EXCEPT !.nall = j], nbS.seen[j]))
        /\ [j \in 1 .. Len(nb.datas) |-> nb.datas[j][1]] = LabelsOf(nbS.seen)
        /\ \A j \in 1 .. Len(nb.datas) :
              nb.datas[j][2].rows = Labelled(nbS.seen, nb.datas[j][1])
        /\ SeqSum([j \in 1 .. Len(nb.datas) |-> Len(nb.datas[j][2].rows)]) = N
        /\ nb.acc = Hits(nbS.seen, nbS.gots)
        /\ 0 <= nb.acc /\ nb.acc <= Max2(0, N - 10)

\* twelve rows were fed, one of the two classified ones was the first of its
\* label, and the other was classified as its own label
C7_Witness ==
  /\ Len(nbS.seen) = 12
  /\ Len(nbS.nb.datas) = 2
  /\ Len(LabelsOf(SubSeq(nbS.seen, 1, 10))) = 1
  /\ nbS.nb.acc = 1

=============================================================================
